---- MODULE Spec2Model ----
(***************************************************************************)
(* Drift-and-anomaly analysis engine of ORAN-DRISHTI.                      *)
(*                                                                         *)
(* Numbers.  The engine computes on IEEE-754 numbers.  A drift value, a    *)
(* grid value, a median or a limit is modelled as an integer counting      *)
(* hundredths (0.01 is 1, -0.05 is -5, 0.5 is 50).  A store into a         *)
(* Float32Array is modelled by ToFloat32, round-to-nearest-even on a       *)
(* 24-bit significand.  Inputs are finite numbers (no NaN or Infinity in   *)
(* a grid: a grid keeps min <= element <= max).                            *)
(***************************************************************************)
EXTENDS Integers, Sequences, FiniteSets, TLC

VARIABLES
    past, present,      \* the two grids handed to calculateDrift
    driftRes, revRes,   \* outcome of calculateDrift(past, present) and of the swapped call
    madDrift, madRes,   \* drift array handed to the Median/MAD detectAnomalies, its result
    isoDrift, isoRes,   \* drift array handed to the Isolation detectAnomalies, its result
    harmHistory,        \* series handed to performHarmonicAnalysis
    harmInverseScaled,  \* whether the FFT library's inverseTransform divides by the size
    harmRes,            \* outcome of performHarmonicAnalysis
    solarAltitude, solarScore,  \* arguments of validateShadowDepth
    solarRes,           \* outcome of validateShadowDepth
    treeSample, treeRes, \* subsample handed to buildTree, the tree it returned
    pastFile, presentFile,            \* App: the file selected for each slot
    pastRasterRef, presentRasterRef,  \* App: the raster held for each slot
    isProcessing, resultReady,        \* App: state flags
    selectedPixel, solarData,         \* App: inspected pixel, solar validation
    canvasResult,                     \* App: size of the result canvas
    pendingDecodes,                   \* App: loadGeoTiff promises not settled yet
    pendingTimer,                     \* App: the setTimeout callback of runAnalysis is due
    lastRun,                          \* App: how the latest analysis run went
    uploadCount, runCount,            \* App: file selections and analysis runs so far
    zone,                             \* ChartPanel: id of the zone prop of the latest render
    effectZone,                       \* ChartPanel: zone.id the effect last ran for
    isTraining, processedData,        \* ChartPanel: state hooks
    pipelines,                        \* ChartPanel: runPipeline calls awaiting the model
    zoneChanges                       \* ChartPanel: zone changes so far

vars == <<past, present, driftRes, revRes, madDrift, madRes, isoDrift, isoRes,
          harmHistory, harmInverseScaled, harmRes,
          solarAltitude, solarScore, solarRes, treeSample, treeRes,
          pastFile, presentFile, pastRasterRef, presentRasterRef, isProcessing,
          resultReady, selectedPixel, solarData, canvasResult, pendingDecodes,
          pendingTimer, lastRun, uploadCount, runCount,
          zone, effectZone, isTraining, processedData, pipelines, zoneChanges>>

driftVars == <<past, present, driftRes, revRes>>
madVars == <<madDrift, madRes>>
isoVars == <<isoDrift, isoRes>>
harmVars == <<harmHistory, harmInverseScaled, harmRes>>
solarVars == <<solarAltitude, solarScore, solarRes>>
treeVars == <<treeSample, treeRes>>
appVars == <<pastFile, presentFile, pastRasterRef, presentRasterRef, isProcessing,
             resultReady, selectedPixel, solarData, canvasResult, pendingDecodes,
             pendingTimer, lastRun, uploadCount, runCount>>

(***************************************************************************)
(* Bounds of the model.                                                    *)
(***************************************************************************)
\* largest number of pixels (width * height) of a grid of SpecDrift
MaxPixels == 3
\* longest drift array handed to the Median/MAD detectAnomalies in SpecMad
MaxMadLen == 5
\* longest drift array handed to the Isolation detectAnomalies in SpecIso
MaxIsoLen == 4

(***************************************************************************)
(* Shared numeric helpers.                                                 *)
(***************************************************************************)
Abs(x) == IF x < 0 THEN -x ELSE x

\* number of significand bits of a single-precision number
Float32Bits == 24

RECURSIVE Pow2(_)
Pow2(k) == IF k <= 0 THEN 1 ELSE 2 * Pow2(k - 1)

\* spacing of the single-precision numbers around magnitude a
RECURSIVE Ulp(_)
Ulp(a) == IF a < Pow2(Float32Bits) THEN 1 ELSE 2 * Ulp(a \div 2)

\* a wrong store: ties and halves always rounded toward +Infinity
ToFloat32_roundUp(x) ==
    LET u == Ulp(Abs(x)) IN ((2 * x + u) \div (2 * u)) * u

\* the store drift[i] = x of a Float32Array: round to nearest, ties to even
ToFloat32(x) ==
    LET a == Abs(x)
        u == Ulp(a)
        q == a \div u
        r == a % u
        m == IF 2 * r < u THEN q * u
             ELSE IF 2 * r > u THEN (q + 1) * u
             ELSE IF q % 2 = 0 THEN q * u ELSE (q + 1) * u
    IN  IF x < 0 THEN -m ELSE m

(***************************************************************************)
(* RasterData and calculateDrift.                                          *)
(***************************************************************************)
\* values a pixel takes in SpecDrift (all single-precision numbers)
PixelValues == {-1, 0, 16777216}

Shapes == {s \in (1..MaxPixels) \X (1..MaxPixels) : s[1] * s[2] <= MaxPixels}

\* RasterData: width, height and a row-major buffer of width * height values
RasterData ==
    UNION {[width : {s[1]}, height : {s[2]},
            data : [1..(s[1] * s[2]) -> PixelValues]] : s \in Shapes}

\* no call made yet
NoCall == [called |-> FALSE, threw |-> FALSE, drift |-> <<>>]

\* throw new Error("Image dimensions do not match"): nothing is returned
Threw == [called |-> TRUE, threw |-> TRUE, drift |-> <<>>]

Returned(d) == [called |-> TRUE, threw |-> FALSE, drift |-> d]

\* Number(raster.data[i]); an index past the buffer reads undefined, and the
\* difference is then NaN, which the model writes as the value NaNValue
NaNValue == -2000000000

DataAt(raster, i) == IF i \in DOMAIN raster.data THEN raster.data[i] ELSE NaNValue

Minus(a, b) == IF a = NaNValue \/ b = NaNValue THEN NaNValue ELSE ToFloat32(a - b)

\* a wrong guard: only the widths are compared
calculateDrift_widthOnly(p, q) ==
    IF p.width # q.width THEN Threw
    ELSE Returned([i \in 1..Len(p.data) |-> Minus(DataAt(q, i), DataAt(p, i))])

\* a wrong direction: earlier minus later
calculateDrift_reversed(p, q) ==
    IF p.width # q.width \/ p.height # q.height THEN Threw
    ELSE Returned([i \in 1..Len(p.data) |-> Minus(DataAt(p, i), DataAt(q, i))])

\* a wrong index: the earlier grid is read at its first pixel only
calculateDrift_firstPixel(p, q) ==
    IF p.width # q.width \/ p.height # q.height THEN Threw
    ELSE Returned([i \in 1..Len(p.data) |-> Minus(DataAt(q, i), DataAt(p, 1))])

calculateDrift(p, q) ==
    IF p.width # q.width \/ p.height # q.height THEN Threw
    ELSE Returned([i \in 1..Len(p.data) |-> Minus(DataAt(q, i), DataAt(p, i))])

(***************************************************************************)
(* SpecDrift: two grids, and the calls calculateDrift(past, present) and   *)
(* calculateDrift(present, past).                                          *)
(***************************************************************************)
MadIdle == madDrift = <<>> /\ madRes = [called |-> FALSE]

IsoIdle == isoDrift = <<>> /\ isoRes = [called |-> FALSE]

HarmIdle == harmHistory = <<>> /\ harmInverseScaled = FALSE /\ harmRes = [called |-> FALSE]

SolarIdle == solarAltitude = 0 /\ solarScore = 0 /\ solarRes = [called |-> FALSE]

TreeIdle == treeSample = <<>> /\ treeRes = [called |-> FALSE]

\* null, and a held value, of a state hook or a ref
Null == <<>>
Some(x) == <<x>>

\* the App as mounted: useState and useRef initial values, nothing pending
AppMounted ==
    /\ pastFile = "none" /\ presentFile = "none"
    /\ pastRasterRef = Null /\ presentRasterRef = Null
    /\ isProcessing = FALSE /\ resultReady = FALSE
    /\ selectedPixel = Null /\ solarData = Null
    /\ canvasResult = [width |-> 0, height |-> 0]
    /\ pendingDecodes = {}
    /\ pendingTimer = FALSE
    /\ lastRun = "none"
    /\ uploadCount = 0 /\ runCount = 0

chartVars == <<zone, effectZone, isTraining, processedData, pipelines, zoneChanges>>

\* ChartPanel is not rendered
ChartIdle ==
    /\ zone = "none"
    /\ effectZone = "none"
    /\ isTraining = FALSE
    /\ processedData = Null
    /\ pipelines = {}
    /\ zoneChanges = 0

InitDrift ==
    /\ past \in RasterData
    /\ present \in RasterData
    /\ driftRes = NoCall
    /\ revRes = NoCall
    /\ MadIdle
    /\ IsoIdle
    /\ HarmIdle
    /\ SolarIdle
    /\ TreeIdle
    /\ AppMounted
    /\ ChartIdle

CallDrift ==
    /\ ~driftRes.called
    /\ driftRes' = calculateDrift(past, present)
    /\ UNCHANGED <<past, present, revRes, madVars, isoVars, harmVars, solarVars, treeVars, appVars, chartVars>>

CallDriftSwapped ==
    /\ ~revRes.called
    /\ revRes' = calculateDrift(present, past)
    /\ UNCHANGED <<past, present, driftRes, madVars, isoVars, harmVars, solarVars, treeVars, appVars, chartVars>>

NextDrift == CallDrift \/ CallDriftSwapped

SpecDrift == InitDrift /\ [][NextDrift]_vars

SameShape == past.width = present.width /\ past.height = present.height

\* C1: calculateDrift on grids whose width or height differ throws and
\* returns no drift array, so no result pairs pixels of mismatched grids.
C1_ShapeMismatchThrows ==
    (driftRes.called /\ ~SameShape) => (driftRes.threw /\ driftRes.drift = <<>>)

C1_Witness ==
    /\ driftRes.called /\ driftRes.threw
    /\ past.width # present.width
    /\ Len(past.data) = Len(present.data)

\* C2: for grids of equal width and height the drift array has one element
\* per pixel and drift[i] is present[i] - past[i] (later minus earlier) at
\* the same index i, the difference being taken in the single-precision
\* representation of the drift array.
C2_DriftIsPresentMinusPast ==
    (driftRes.called /\ SameShape) =>
        /\ ~driftRes.threw
        /\ Len(driftRes.drift) = past.width * past.height
        /\ Len(driftRes.drift) = Len(past.data)
        /\ Len(driftRes.drift) = Len(present.data)
        /\ \A i \in 1..Len(driftRes.drift) :
              driftRes.drift[i] = ToFloat32(present.data[i] - past.data[i])

C2_Witness ==
    /\ driftRes.called /\ ~driftRes.threw
    /\ Len(driftRes.drift) = 3
    /\ driftRes.drift[1] < 0 /\ driftRes.drift[2] > 0 /\ driftRes.drift[3] = 0
    /\ present.data[2] - past.data[2] # driftRes.drift[2]

\* C3: for every grid A, calculateDrift(A, A) is zero at every index.
C3_SelfDriftIsZero ==
    (driftRes.called /\ past = present) =>
        /\ ~driftRes.threw
        /\ Len(driftRes.drift) = Len(past.data)
        /\ \A i \in 1..Len(driftRes.drift) : driftRes.drift[i] = 0

C3_Witness ==
    /\ driftRes.called /\ past = present
    /\ Len(past.data) = 3
    /\ past.data[1] # past.data[2] /\ past.data[2] # past.data[3]

\* C4: drift is antisymmetric: for equal-shaped grids A and B and every
\* index i, calculateDrift(A, B)[i] = -calculateDrift(B, A)[i].
C4_DriftAntisymmetric ==
    (driftRes.called /\ revRes.called /\ SameShape) =>
        /\ ~driftRes.threw /\ ~revRes.threw
        /\ Len(driftRes.drift) = Len(revRes.drift)
        /\ \A i \in 1..Len(driftRes.drift) :
              driftRes.drift[i] = -revRes.drift[i]

C4_Witness ==
    /\ driftRes.called /\ revRes.called /\ SameShape
    /\ \E i \in 1..Len(driftRes.drift) :
          /\ driftRes.drift[i] # 0
          /\ driftRes.drift[i] # present.data[i] - past.data[i]

(***************************************************************************)
(* Robust Median/MAD detectAnomalies.                                      *)
(***************************************************************************)
\* values of a drift array of SpecMad, in hundredths
MadValues == {-40, -3, 0, 5}

\* the value undefined, read from an index past the end of an array
Undefined == -2000000001

IsNumber(x) == x # NaNValue /\ x # Undefined

\* a - b on numbers; NaN when an operand is undefined or NaN
Sub(a, b) == IF IsNumber(a) /\ IsNumber(b) THEN a - b ELSE NaNValue

\* k * a on numbers; NaN when a is undefined or NaN
Times(k, a) == IF IsNumber(a) THEN k * a ELSE NaNValue

\* a < b; false when an operand is NaN
Less(a, b) == IsNumber(a) /\ IsNumber(b) /\ a < b

\* arr[idx] with the 0-based index of the code; undefined past the end
At(arr, idx) == IF idx + 1 \in DOMAIN arr THEN arr[idx + 1] ELSE Undefined

\* the array without its element at position k
RemoveAt(arr, k) == [i \in 1..(Len(arr) - 1) |-> IF i < k THEN arr[i] ELSE arr[i + 1]]

\* a position of a least element
MinPos(arr) == CHOOSE k \in DOMAIN arr : \A j \in DOMAIN arr : arr[k] <= arr[j]

\* TypedArray.prototype.sort(): ascending numeric order
RECURSIVE Sort(_)
Sort(arr) ==
    IF Len(arr) = 0 THEN <<>>
    ELSE LET k == MinPos(arr) IN <<arr[k]>> \o Sort(RemoveAt(arr, k))

\* drift.length above which the statistics are taken from a random subsample
SampleAbove == 1000000
\* size of that subsample
SampleSize == 100000

\* the samples the code can draw: the drift array itself, or sampleSize
\* elements drift[floor(random * length)] drawn with replacement
Samples(drift) ==
    IF Len(drift) > SampleAbove
    THEN {[j \in 1..SampleSize |-> drift[f[j]]] :
              f \in [1..SampleSize -> 1..Len(drift)]}
    ELSE {drift}

\* a wrong index: the lower of the two middle elements of an even count
Mid_lower(n) == IF n = 0 THEN 0 ELSE (n - 1) \div 2

\* mid = Math.floor(sorted.length / 2)
Mid(n) == n \div 2

\* deviations[i] = Math.abs(sorted[i] - median), stored in a Float32Array
Deviations(sorted, median) ==
    [i \in 1..Len(sorted) |-> ToFloat32(Abs(sorted[i] - median))]

\* the epsilon that replaces a MAD of zero, 0.01
Epsilon == 1

\* a wrong guard: a MAD of zero is used as it is
RobustMad_noGuard(mad) == mad

\* robustMad = mad === 0 ? 0.01 : mad
RobustMad(mad) == IF mad = 0 THEN Epsilon ELSE mad

\* a wrong sign: limit = median + threshold
Limit_above(median, mad) == Sub(median, Times(-3, RobustMad(mad)))

\* threshold = 3 * robustMad; limit = median - threshold
Limit(median, mad) == Sub(median, Times(3, RobustMad(mad)))

\* a wrong test: drift[i] <= limit
Flagged_orEqual(d, limit) == Less(d, limit) \/ (IsNumber(d) /\ d = limit)

\* the test drift[i] < limit of the flagging loop
Flagged(d, limit) == Less(d, limit)

\* a wrong sort: sample.sort() in place, where sample is the drift array
\* itself unless a subsample was drawn
AfterSort_inPlace(drift, sample) ==
    IF Len(drift) > SampleAbove THEN drift ELSE Sort(drift)

\* the drift array after "sorted = Float32Array.from(sample).sort()": the
\* sort works on a copy, and nothing else of the function writes to drift
AfterSort(drift, sample) == drift

\* a wrong allocation: new Uint8Array(Math.max(drift.length, 1))
MadMask_atLeastOne(drift, limit) ==
    IF Len(drift) = 0 THEN <<0>>
    ELSE [i \in 1..Len(drift) |-> IF Flagged(drift[i], limit) THEN 1 ELSE 0]

\* anomalies = new Uint8Array(drift.length), set to 1 where drift[i] < limit
MadMask(drift, limit) ==
    [i \in 1..Len(drift) |-> IF Flagged(drift[i], limit) THEN 1 ELSE 0]

\* a wrong counter: count++ on every turn of the loop
MadCount_everyTurn(drift, limit) == Len(drift)

\* count, incremented where drift[i] < limit
MadCount(drift, limit) == Cardinality({i \in 1..Len(drift) : Flagged(drift[i], limit)})

\* detectAnomalies has no throw and reads no property of undefined: it
\* returns for every drift array (threw is FALSE); input is the drift array
\* as it was handed in, driftAfter the same array when the call returns
detectAnomaliesMad(drift, sample) ==
    LET sorted == Sort(sample)
        mid == Mid(Len(sorted))
        median == At(sorted, mid)
        deviations == Sort(Deviations(sorted, median))
        mad == At(deviations, mid)
        limit == Limit(median, mad)
        after == AfterSort(drift, sample)
    IN  [called |-> TRUE,
         threw |-> FALSE,
         input |-> drift,
         driftAfter |-> after,
         sample |-> sample,
         anomalies |-> MadMask(after, limit),
         count |-> MadCount(after, limit),
         stats |-> [median |-> median, mad |-> mad, limit |-> limit]]

(***************************************************************************)
(* SpecMad: one call of the Median/MAD detectAnomalies on a drift array.   *)
(***************************************************************************)
\* the 2x2 scenario: past = 0.5 everywhere, present = 0.1 at index 0
ScenarioPast == [width |-> 2, height |-> 2, data |-> <<50, 50, 50, 50>>]
ScenarioPresent == [width |-> 2, height |-> 2, data |-> <<10, 50, 50, 50>>]

DriftIdle ==
    /\ past = ScenarioPast
    /\ present = ScenarioPresent
    /\ driftRes = NoCall
    /\ revRes = NoCall

MadDrifts == UNION {[1..n -> MadValues] : n \in 0..MaxMadLen}

InitMad ==
    /\ DriftIdle
    /\ IsoIdle
    /\ madDrift \in MadDrifts
    /\ madRes = [called |-> FALSE]
    /\ HarmIdle
    /\ SolarIdle
    /\ TreeIdle
    /\ AppMounted
    /\ ChartIdle

CallDetectMad ==
    /\ ~madRes.called
    /\ \E sample \in Samples(madDrift) : madRes' = detectAnomaliesMad(madDrift, sample)
    /\ madDrift' = madRes'.driftAfter
    /\ UNCHANGED <<driftVars, isoVars, harmVars, solarVars, treeVars, appVars, chartVars>>

NextMad == CallDetectMad

SpecMad == InitMad /\ [][NextMad]_vars

\* C5: Median/MAD: for every index i the mask is 1 exactly when
\* drift[i] < stats.limit and 0 exactly when drift[i] >= stats.limit.
C5_MaskIffBelowLimit ==
    madRes.called =>
        /\ Len(madRes.anomalies) = Len(madDrift)
        /\ \A i \in 1..Len(madDrift) :
              /\ madRes.anomalies[i] = 1 <=> madDrift[i] < madRes.stats.limit
              /\ madRes.anomalies[i] = 0 <=> madDrift[i] >= madRes.stats.limit

C5_Witness ==
    /\ madRes.called
    /\ \E i, j, k \in 1..Len(madDrift) :
          /\ madDrift[i] < madRes.stats.limit /\ madRes.anomalies[i] = 1
          /\ madDrift[j] = madRes.stats.limit /\ madRes.anomalies[j] = 0
          /\ madDrift[k] > madRes.stats.limit /\ madRes.anomalies[k] = 0

\* C6: Median/MAD is one-sided: no index i with drift[i] >= 0 (zero or
\* positive drift) is ever flagged.
C6_NoNonNegativeFlagged ==
    madRes.called =>
        \A i \in 1..Len(madDrift) : madDrift[i] >= 0 => madRes.anomalies[i] = 0

\* C7: Median/MAD: whenever the computed MAD is 0 the effective MAD is 0.01,
\* so limit = median - 0.03 and exactly the indices with
\* drift[i] < median - 0.03 are flagged; the 2x2 scenario gives median 0,
\* limit -0.03, only index 0 flagged and count 1.
C7_ZeroMadUsesEpsilon ==
    /\ (madRes.called /\ madRes.stats.mad = 0) =>
          /\ madRes.stats.limit = madRes.stats.median - 3
          /\ madRes.stats.limit < madRes.stats.median
          /\ \A i \in 1..Len(madDrift) :
                madRes.anomalies[i] = 1 <=> madDrift[i] < madRes.stats.median - 3
          /\ madRes.count =
                Cardinality({i \in 1..Len(madDrift) : madDrift[i] < madRes.stats.median - 3})
    /\ (madRes.called /\ madDrift = calculateDrift(ScenarioPast, ScenarioPresent).drift) =>
          /\ madDrift = <<-40, 0, 0, 0>>
          /\ madRes.stats.median = 0
          /\ madRes.stats.mad = 0
          /\ madRes.stats.limit = -3
          /\ madRes.anomalies = <<1, 0, 0, 0>>
          /\ madRes.count = 1

C7_Witness ==
    /\ madRes.called
    /\ madDrift = calculateDrift(ScenarioPast, ScenarioPresent).drift
    /\ madRes.stats.mad = 0
    /\ madRes.count = 1

\* the number of elements of arr less than v, and at most v
CountBelow(arr, v) == Cardinality({i \in DOMAIN arr : arr[i] < v})
CountAtMost(arr, v) == Cardinality({i \in DOMAIN arr : arr[i] <= v})

\* v is the element at 1-based position pos of arr sorted ascending
IsAtSortedPosition(arr, v, pos) ==
    /\ \E i \in DOMAIN arr : arr[i] = v
    /\ CountBelow(arr, v) < pos
    /\ CountAtMost(arr, v) >= pos

AbsDeviations(arr, m) == [i \in DOMAIN arr |-> Abs(arr[i] - m)]

EvenSample == madRes.called /\ Len(madRes.sample) > 0 /\ Len(madRes.sample) % 2 = 0

\* C8 as claimed: for an even number n of values the median is the lower of
\* the two middle elements of the sorted sample (position n/2 of n, counted
\* from 1), and the MAD is picked from the sorted |x - M| by the same rule.
C8_MedianIsLowerMiddle ==
    EvenSample =>
        LET n == Len(madRes.sample) IN
        /\ IsAtSortedPosition(madRes.sample, madRes.stats.median, n \div 2)
        /\ IsAtSortedPosition(AbsDeviations(madRes.sample, madRes.stats.median),
                              madRes.stats.mad, n \div 2)

\* C8 amended: for an even number n of values the median is the upper of the
\* two middle elements of the sorted sample (0-based index floor(n/2), the
\* position n/2 + 1 counted from 1), and the MAD is picked from the sorted
\* |x - M| by the same index.
C8_MedianIsUpperMiddle ==
    EvenSample =>
        LET n == Len(madRes.sample) IN
        /\ IsAtSortedPosition(madRes.sample, madRes.stats.median, n \div 2 + 1)
        /\ IsAtSortedPosition(AbsDeviations(madRes.sample, madRes.stats.median),
                              madRes.stats.mad, n \div 2 + 1)

C8_Witness ==
    /\ EvenSample
    /\ Len(madRes.sample) = 4
    /\ ~IsAtSortedPosition(madRes.sample, madRes.stats.median, 2)
    /\ ~IsAtSortedPosition(AbsDeviations(madRes.sample, madRes.stats.median),
                           madRes.stats.mad, 2)

(***************************************************************************)
(* Isolation-style detectAnomalies.                                        *)
(*                                                                         *)
(* Path lengths and c(size) are counted in thousandths, scores in          *)
(* thousandths (0.65 is 650, 0.5 is 500).  A split value is counted in     *)
(* half hundredths (twice a drift value), so that a split strictly between *)
(* two drift values is a number of the model.                              *)
(***************************************************************************)
\* values of a drift array of SpecIso, in hundredths
IsoValues == {-40, -5, 30}

PosInfinity == 2000000000
NegInfinity == -1999999999

\* numTrees
numTrees == 10
\* the cap of the subsample size
MaxSubSample == 256

Min2(a, b) == IF a < b THEN a ELSE b

\* subSampleSize = Math.min(n, 256)
subSampleSize(n) == Min2(n, MaxSubSample)

\* Math.ceil(Math.log2(s)) for s >= 1
RECURSIVE CeilLog2(_)
CeilLog2(s) == IF s <= 1 THEN 0 ELSE 1 + CeilLog2((s + 1) \div 2)

\* heightLimit = Math.ceil(Math.log2(subSampleSize)); log2(0) is -Infinity
heightLimit(s) == IF s = 0 THEN NegInfinity ELSE CeilLog2(s)

\* Math.log(k) in thousandths, k = 1..8
LnMilli == <<0, 693, 1099, 1386, 1609, 1792, 1946, 2079>>

\* the Euler-Mascheroni constant 0.5772156649 in thousandths
EulerMilli == 577

\* c(size) = 2 * (Math.log(size - 1) + 0.5772156649) - 2 * (size - 1) / size
c(size) ==
    IF size <= 1 THEN 0
    ELSE 2 * (LnMilli[size - 1] + EulerMilli) - (2000 * (size - 1)) \div size

SeqMin(data) == CHOOSE v \in {data[i] : i \in DOMAIN data} : \A j \in DOMAIN data : v <= data[j]
SeqMax(data) == CHOOSE v \in {data[i] : i \in DOMAIN data} : \A j \in DOMAIN data : v >= data[j]

\* splitValue = min + Math.random() * (max - min) with Math.random() in [0, 1),
\* in half hundredths: the draw 0 gives min itself; every other draw gives a
\* value above min that compares with the drift values like a value just
\* above the greatest drift value below it
SplitValues(min, max) ==
    {2 * min} \cup {2 * a + 1 : a \in {v \in IsoValues : min <= v /\ v < max}}

\* data[i] < splitValue and val < node.splitValue
BelowSplit(v, splitValue) == 2 * v < splitValue

Leaf(size) == [type |-> "leaf", size |-> size]

\* a wrong leaf test: depth > heightLimit
RECURSIVE buildTree_deep(_, _, _)
buildTree_deep(data, depth, hLimit) ==
    IF depth > hLimit \/ Len(data) <= 1 THEN {Leaf(Len(data))}
    ELSE IF SeqMin(data) = SeqMax(data) THEN {Leaf(Len(data))}
    ELSE UNION {
        LET leftData == SelectSeq(data, LAMBDA x : BelowSplit(x, sv))
            rightData == SelectSeq(data, LAMBDA x : ~BelowSplit(x, sv))
        IN  {[type |-> "node", splitValue |-> sv, left |-> l, right |-> r] :
                l \in buildTree_deep(leftData, depth + 1, hLimit),
                r \in buildTree_deep(rightData, depth + 1, hLimit)}
        : sv \in SplitValues(SeqMin(data), SeqMax(data))}

\* a wrong build: the test min === max is missing
RECURSIVE buildTree_noTie(_, _, _)
buildTree_noTie(data, depth, hLimit) ==
    IF depth >= hLimit \/ Len(data) <= 1 THEN {Leaf(Len(data))}
    ELSE UNION {
        LET leftData == SelectSeq(data, LAMBDA x : BelowSplit(x, sv))
            rightData == SelectSeq(data, LAMBDA x : ~BelowSplit(x, sv))
        IN  {[type |-> "node", splitValue |-> sv, left |-> l, right |-> r] :
                l \in buildTree_noTie(leftData, depth + 1, hLimit),
                r \in buildTree_noTie(rightData, depth + 1, hLimit)}
        : sv \in SplitValues(SeqMin(data), SeqMax(data))}

\* the trees buildTree(data, depth) can return, over the draws of Math.random()
RECURSIVE buildTree(_, _, _)
buildTree(data, depth, hLimit) ==
    IF depth >= hLimit \/ Len(data) <= 1 THEN {Leaf(Len(data))}
    ELSE IF SeqMin(data) = SeqMax(data) THEN {Leaf(Len(data))}
    ELSE UNION {
        LET leftData == SelectSeq(data, LAMBDA x : BelowSplit(x, sv))
            rightData == SelectSeq(data, LAMBDA x : ~BelowSplit(x, sv))
        IN  {[type |-> "node", splitValue |-> sv, left |-> l, right |-> r] :
                l \in buildTree(leftData, depth + 1, hLimit),
                r \in buildTree(rightData, depth + 1, hLimit)}
        : sv \in SplitValues(SeqMin(data), SeqMax(data))}

\* pathLength(val, node, depth), in thousandths
RECURSIVE pathLength(_, _, _)
pathLength(val, node, depth) ==
    IF node.type = "leaf" THEN 1000 * depth + c(node.size)
    ELSE IF BelowSplit(val, node.splitValue)
         THEN pathLength(val, node.left, depth + 1)
         ELSE pathLength(val, node.right, depth + 1)

\* the subsamples the forest loop can draw: sample[j] = drift[floor(random * n)]
SubSamples(drift) ==
    LET n == Len(drift)
        s == subSampleSize(n)
    IN  {[j \in 1..s |-> drift[f[j]]] : f \in [1..s -> 1..n]}

\* the trees one turn of the forest loop can push
ForestTrees(drift) ==
    UNION {buildTree(sample, 0, heightLimit(subSampleSize(Len(drift)))) :
              sample \in SubSamples(drift)}

DriftValues(drift) == {drift[i] : i \in DOMAIN drift}

\* pathLength(v, tree, 0) for each value v of the drift array (equal drift
\* values take the same path)
PathLengths(drift, tree) == [v \in DriftValues(drift) |-> pathLength(v, tree, 0)]

\* the sums avgPathLen += pathLength(drift[i], forest[j], 0) can reach over
\* a forest of k trees, per drift value
RECURSIVE PathSums(_, _, _)
PathSums(k, vals, perTree) ==
    IF k = 0 THEN {[v \in vals |-> 0]}
    ELSE LET before == PathSums(k - 1, vals, perTree)
         IN  {[v \in vals |-> s[v] + pl[v]] : s \in before, pl \in perTree}

\* the path sums the forest of numTrees trees can give
ForestPathSums(drift) ==
    LET perTree == {PathLengths(drift, t) : t \in ForestTrees(drift)}
    IN  PathSums(numTrees, DriftValues(drift), perTree)

\* the drift arrays of SpecIso: a constant background with at most one
\* other value, at the first or at the last index
IsoDrifts ==
    {d \in UNION {[1..n -> IsoValues] : n \in 0..MaxIsoLen} :
        \/ \A i, j \in 2..Len(d) : d[i] = d[j]
        \/ \A i, j \in 1..(Len(d) - 1) : d[i] = d[j]}

\* 1000 * 2^(-k/16) for k = 0..15
Pow2NegSixteenths ==
    <<1000, 958, 917, 878, 841, 805, 771, 738, 707, 677, 648, 621, 595, 569, 545, 522>>

\* score = Math.pow(2, -avgPathLen / c(subSampleSize)) with
\* avgPathLen = pathSum / numTrees, in thousandths (the exponent is cut to
\* sixteenths); 0 / 0 is NaN and a positive path over 0 gives 2^-Infinity = 0
Score(pathSum, s) ==
    LET cs == c(s) IN
    IF cs = 0 THEN (IF pathSum = 0 THEN NaNValue ELSE 0)
    ELSE LET e16 == (16 * pathSum) \div (numTrees * cs)
         IN  Pow2NegSixteenths[(e16 % 16) + 1] \div Pow2(e16 \div 16)

\* anomalyThreshold = 0.65, in thousandths
anomalyThreshold == 650
\* the sign gate -0.05, in hundredths
DriftGate == -5

\* a wrong test: the sign gate is missing
IsoFlagged_noGate(score, d) == Less(anomalyThreshold, score)

\* scores[i] > anomalyThreshold && drift[i] < -0.05
IsoFlagged(score, d) == Less(anomalyThreshold, score) /\ d < DriftGate

\* the fold "if (score < minScore) minScore = score" over the scores
RECURSIVE FoldMin(_, _, _)
FoldMin(scores, i, acc) ==
    IF i > Len(scores) THEN acc
    ELSE FoldMin(scores, i + 1, IF Less(scores[i], acc) THEN scores[i] ELSE acc)

RECURSIVE FoldMax(_, _, _)
FoldMax(scores, i, acc) ==
    IF i > Len(scores) THEN acc
    ELSE FoldMax(scores, i + 1, IF Less(acc, scores[i]) THEN scores[i] ELSE acc)

\* scores[i] = Math.pow(2, -avgPathLen / c(subSampleSize))
IsoScores(drift, pathSum) ==
    [i \in 1..Len(drift) |-> Score(pathSum[drift[i]], subSampleSize(Len(drift)))]

\* the thresholding and the statistics of detectAnomalies over its scores
IsoResult(drift, scores) ==
    [called |-> TRUE,
     threw |-> FALSE,
     input |-> drift,
     driftAfter |-> drift,
     scores |-> scores,
     anomalies |-> [i \in 1..Len(drift) |->
                       IF IsoFlagged(scores[i], drift[i]) THEN 1 ELSE 0],
     count |-> Cardinality({i \in 1..Len(drift) : IsoFlagged(scores[i], drift[i])}),
     stats |-> [maxScore |-> FoldMax(scores, 1, NegInfinity),
                minScore |-> FoldMin(scores, 1, PosInfinity),
                threshold |-> anomalyThreshold]]

\* detectAnomalies, given the path sums of the forest it drew; it has no
\* throw and reads no property of undefined (threw is FALSE), and it writes
\* to sample, leftData, rightData, scores and anomalies only, never to drift
detectAnomaliesIso(drift, pathSum) == IsoResult(drift, IsoScores(drift, pathSum))

(***************************************************************************)
(* SpecIso: one call of the Isolation detectAnomalies on a drift array.    *)
(***************************************************************************)
InitIso ==
    /\ DriftIdle
    /\ MadIdle
    /\ isoDrift \in IsoDrifts
    /\ isoRes = [called |-> FALSE]
    /\ HarmIdle
    /\ SolarIdle
    /\ TreeIdle
    /\ AppMounted
    /\ ChartIdle

CallDetectIso ==
    /\ ~isoRes.called
    /\ \E pathSum \in ForestPathSums(isoDrift) :
          isoRes' = detectAnomaliesIso(isoDrift, pathSum)
    /\ isoDrift' = isoRes'.driftAfter
    /\ UNCHANGED <<driftVars, madVars, harmVars, solarVars, treeVars, appVars, chartVars>>

NextIso == CallDetectIso

SpecIso == InitIso /\ [][NextIso]_vars

\* C9: Isolation: every flagged index i has drift[i] < -0.05, whatever the
\* random draws; a drift array of one positive constant yields an all-zero
\* mask and count 0.
C9_FlaggedOnlyBelowGate ==
    isoRes.called =>
        /\ \A i \in 1..Len(isoDrift) : isoRes.anomalies[i] = 1 => isoDrift[i] < -5
        /\ (\A i \in 1..Len(isoDrift) : isoDrift[i] = 30) =>
              /\ \A i \in 1..Len(isoDrift) : isoRes.anomalies[i] = 0
              /\ isoRes.count = 0

C9_Witness ==
    /\ isoRes.called
    /\ \E i \in 1..Len(isoDrift) : isoRes.anomalies[i] = 1 /\ isoDrift[i] < -5
    /\ \E i \in 1..Len(isoDrift) :
          /\ isoRes.scores[i] > anomalyThreshold
          /\ isoDrift[i] >= -5
          /\ isoRes.anomalies[i] = 0

InUnitInterval(x) == IsNumber(x) /\ 0 <= x /\ x <= 1000

\* C10: Isolation: for every non-empty drift array (N = 1 and N = 2
\* included) and every outcome of the draws, each score is a number in
\* [0, 1], and minScore and maxScore lie in [0, 1] with minScore <= maxScore.
C10_ScoresInUnitInterval ==
    (isoRes.called /\ Len(isoDrift) >= 1) =>
        /\ \A i \in 1..Len(isoDrift) : InUnitInterval(isoRes.scores[i])
        /\ InUnitInterval(isoRes.stats.minScore)
        /\ InUnitInterval(isoRes.stats.maxScore)
        /\ isoRes.stats.minScore <= isoRes.stats.maxScore

(***************************************************************************)
(* SpecScore: one drift array handed to both scoring strategies, each      *)
(* called once, in either order.                                           *)
(***************************************************************************)
InitScore ==
    /\ DriftIdle
    /\ madDrift \in IsoDrifts
    /\ isoDrift = madDrift
    /\ madRes = [called |-> FALSE]
    /\ isoRes = [called |-> FALSE]
    /\ HarmIdle
    /\ SolarIdle
    /\ TreeIdle
    /\ AppMounted
    /\ ChartIdle

NextScore == CallDetectMad \/ CallDetectIso

SpecScore == InitScore /\ [][NextScore]_vars

\* C11: both strategies return normally on a zero-length drift array, with
\* a mask of length 0 and count 0.
C11_EmptyDriftEmptyResult ==
    /\ (madRes.called /\ Len(madRes.input) = 0) =>
          ~madRes.threw /\ Len(madRes.anomalies) = 0 /\ madRes.count = 0
    /\ (isoRes.called /\ Len(isoRes.input) = 0) =>
          ~isoRes.threw /\ Len(isoRes.anomalies) = 0 /\ isoRes.count = 0

C11_Witness ==
    /\ madRes.called /\ isoRes.called
    /\ madRes.input = <<>> /\ isoRes.input = <<>>
    /\ madRes.stats.limit = NaNValue
    /\ isoRes.stats.minScore = PosInfinity

NumberOfOnes(mask) == Cardinality({i \in DOMAIN mask : mask[i] = 1})

IsMaskOf(res) ==
    /\ Len(res.anomalies) = Len(res.input)
    /\ \A i \in 1..Len(res.anomalies) : res.anomalies[i] \in {0, 1}
    /\ res.count = NumberOfOnes(res.anomalies)

\* C12: for both strategies the mask has the length of the drift array,
\* every mask entry is 0 or 1, and count is the number of entries equal to 1.
C12_MaskAndCountAgree ==
    /\ madRes.called => IsMaskOf(madRes)
    /\ isoRes.called => IsMaskOf(isoRes)

C12_Witness ==
    /\ madRes.called /\ isoRes.called
    /\ Len(madRes.input) >= 3
    /\ madRes.count >= 1 /\ madRes.count < Len(madRes.input)
    /\ isoRes.count >= 1 /\ isoRes.count < Len(isoRes.input)

MaxHarmLen == 17

Max2(a, b) == IF a > b THEN a ELSE b

\* Math.max(2, Math.pow(2, Math.ceil(Math.log2(n)))); log2(0) is -Infinity
\* and Math.pow(2, -Infinity) is 0
nextPow2(n) == IF n = 0 THEN 2 ELSE Max2(2, Pow2(CeilLog2(n)))

cutoff == 10

FixedOne == Pow2(14)

\* cos(2 * pi * q / 32) * FixedOne for q = 0..8
CosTable == <<16384, 16069, 15137, 13623, 11585, 9102, 6270, 3196, 0>>

Cos32(q) ==
    LET r == q % 32
    IN  IF r <= 8 THEN CosTable[r + 1]
        ELSE IF r <= 16 THEN -CosTable[16 - r + 1]
        ELSE IF r <= 24 THEN -CosTable[r - 16 + 1]
        ELSE CosTable[32 - r + 1]

Sin32(q) == Cos32(q - 8)

\* a * tw / FixedOne without leaving 32 bits
MulFixed(a, tw) == (a \div FixedOne) * tw + ((a % FixedOne) * tw) \div FixedOne

\* a / b rounded to the nearest integer, b > 0
RoundDiv(a, b) == (2 * a + b) \div (2 * b)

ComplexZero == [re |-> 0, im |-> 0]

\* z * exp(2 * pi * i * q / 32)
Rotate(z, q) ==
    [re |-> MulFixed(z.re, Cos32(q)) - MulFixed(z.im, Sin32(q)),
     im |-> MulFixed(z.re, Sin32(q)) + MulFixed(z.im, Cos32(q))]

\* sum over t = lo..hi of data[t] * exp(sign * 2 * pi * i * k * t / P), the
\* range halved at each step
RECURSIVE DftSum(_, _, _, _, _, _)
DftSum(data, P, sign, k, lo, hi) ==
    IF lo = hi THEN Rotate(data[lo + 1], sign * k * lo * (32 \div P))
    ELSE LET mid == (lo + hi) \div 2
             low == DftSum(data, P, sign, k, lo, mid)
             high == DftSum(data, P, sign, k, mid + 1, hi)
         IN  [re |-> low.re + high.re, im |-> low.im + high.im]

\* bins lo..hi of the transform of data
RECURSIVE DftBins(_, _, _, _, _)
DftBins(data, P, sign, lo, hi) ==
    IF lo = hi THEN <<DftSum(data, P, sign, lo, 0, P - 1)>>
    ELSE LET mid == (lo + hi) \div 2
         IN  DftBins(data, P, sign, lo, mid) \o DftBins(data, P, sign, mid + 1, hi)

\* f.transform(output, input): the forward transform, unscaled
transform(input, P) == DftBins(input, P, -1, 0, P - 1)

\* f.inverseTransform(input, output): the inverse transform, divided by the
\* size or not
inverseTransform(output, P, scaled) ==
    LET raw == DftBins(output, P, 1, 0, P - 1)
    IN  IF scaled
        THEN [i \in 1..P |-> [re |-> RoundDiv(raw[i].re, P), im |-> RoundDiv(raw[i].im, P)]]
        ELSE raw

\* the filled input: the observed values, then the zero padding
FillInput(history, P) ==
    [i \in 1..P |-> IF i <= Len(history)
                    THEN [re |-> history[i].ndvi * FixedOne, im |-> 0]
                    ELSE ComplexZero]

\* a wrong loop: for (i = cutoff + 1; i < nextPow2 - cutoff; i++), which
\* keeps bin cutoff as it keeps its mirror bin nextPow2 - cutoff
LowPass_mirrored(output, P) ==
    [i \in 1..P |-> IF cutoff < i - 1 /\ i - 1 < P - cutoff THEN ComplexZero ELSE output[i]]

\* for (i = cutoff; i < nextPow2 - cutoff; i++) output[i] = 0; bin i of the
\* code is element i + 1 here
LowPass(output, P) ==
    [i \in 1..P |-> IF cutoff <= i - 1 /\ i - 1 < P - cutoff THEN ComplexZero ELSE output[i]]

\* input[2 * i] / nextPow2, in hundredths
Seasonal(z, P) == RoundDiv(z.re, P * FixedOne)

\* a wrong map: one point per element of the padded input
Smoothed_padded(history, input, P) ==
    [i \in 1..P |-> IF i <= Len(history)
                    THEN [history[i] EXCEPT !.seasonal = Seasonal(input[i], P)]
                    ELSE [date |-> i, ndvi |-> 0, viirs |-> 0, trend |-> 0,
                          seasonal |-> Seasonal(input[i], P)]]

\* history.map((point, i) => ({ ...point, seasonal: input[2 * i] / nextPow2 }))
Smoothed(history, input, P) ==
    [i \in 1..Len(history) |-> [history[i] EXCEPT !.seasonal = Seasonal(input[i], P)]]

\* a wrong map: point.seasonal = ...; return point
HistoryAfterMap_assign(history, smoothed) == smoothed

\* the input series after the map: the map builds a new object per point
\* ({ ...point, seasonal }) and writes to no point of history
HistoryAfterMap(history, smoothed) == history

\* spectrum is output as f.transform left it, filtered is output after the
\* low-pass loop (element k + 1 is bin k)
performHarmonicAnalysis(history, scaled) ==
    LET n == Len(history)
        P == nextPow2(n)
        spectrum == transform(FillInput(history, P), P)
        output == LowPass(spectrum, P)
        input == inverseTransform(output, P, scaled)
        smoothed == Smoothed(history, input, P)
    IN  [called |-> TRUE,
         input |-> history,
         size |-> P,
         spectrum |-> spectrum,
         filtered |-> output,
         historyAfter |-> HistoryAfterMap(history, smoothed),
         out |-> smoothed]

Point(i, v) == [date |-> i, ndvi |-> v, viirs |-> 10, trend |-> -i, seasonal |-> 60]

\* observed values of the series of SpecHarm: two constants and a spike
NdviShapes(n) ==
    {[i \in 1..n |-> 50], [i \in 1..n |-> 80], [i \in 1..n |-> IF i = 1 THEN 80 ELSE 20]}

HarmSeries ==
    UNION {{[i \in 1..n |-> Point(i, ndvi[i])] : ndvi \in NdviShapes(n)} : n \in 0..MaxHarmLen}

InitHarm ==
    /\ DriftIdle
    /\ MadIdle
    /\ IsoIdle
    /\ SolarIdle
    /\ TreeIdle
    /\ AppMounted
    /\ ChartIdle
    /\ harmHistory \in HarmSeries
    /\ harmInverseScaled \in BOOLEAN
    /\ harmRes = [called |-> FALSE]

CallHarmonic ==
    /\ ~harmRes.called
    /\ harmRes' = performHarmonicAnalysis(harmHistory, harmInverseScaled)
    /\ harmHistory' = harmRes'.historyAfter
    /\ UNCHANGED <<driftVars, madVars, isoVars, harmInverseScaled, solarVars, treeVars, appVars, chartVars>>

NextHarm == CallHarmonic

SpecHarm == InitHarm /\ [][NextHarm]_vars

\* C14: performHarmonicAnalysis returns a sequence of the length of its
\* input, for every input length; the zero padding is cut off again.
C14_OutputLengthIsInputLength ==
    harmRes.called => Len(harmRes.out) = Len(harmRes.input)

C14_Witness ==
    /\ harmRes.called
    /\ Len(harmRes.input) = 17
    /\ harmRes.size = 32
    /\ Len(harmRes.out) = 17

\* C15: every returned point has the observed value, the timestamp and the
\* trend (and the night-light value) of the input point at its index, only
\* the seasonal estimate may differ; the points of the input series are as
\* they were before the call.
C15_ObservedValuesKept ==
    harmRes.called =>
        /\ \A i \in 1..Len(harmRes.input) :
              /\ i \in DOMAIN harmRes.out
              /\ harmRes.out[i].ndvi = harmRes.input[i].ndvi
              /\ harmRes.out[i].date = harmRes.input[i].date
              /\ harmRes.out[i].trend = harmRes.input[i].trend
              /\ harmRes.out[i].viirs = harmRes.input[i].viirs
        /\ harmHistory = harmRes.input

C15_Witness ==
    /\ harmRes.called
    /\ Len(harmRes.input) >= 3
    /\ \E i \in 1..Len(harmRes.input) :
          /\ harmRes.out[i].seasonal # harmRes.input[i].seasonal
          /\ harmHistory[i].seasonal = 60

\* C16: on a series of length 0 or 1 performHarmonicAnalysis returns the
\* series unchanged, the seasonal estimate included (stated for a library
\* whose inverse transform is unscaled, as the source takes it to be).
C16_ShortSeriesUnchanged ==
    (harmRes.called /\ ~harmInverseScaled /\ Len(harmRes.input) < 2) =>
        harmRes.out = harmRes.input

IsConstantSeries(history) == \A i, j \in 1..Len(history) : history[i].ndvi = history[j].ndvi

\* C17: on a series of length >= 4 whose observed values all equal one
\* constant, the seasonal estimate equals that constant at every index,
\* within a tolerance of one hundredth (stated for a library whose inverse transform is
\* unscaled, as the source takes it to be).
C17_ConstantSeriesKept ==
    (harmRes.called /\ ~harmInverseScaled /\ Len(harmRes.input) >= 4
        /\ IsConstantSeries(harmRes.input)) =>
        \A i \in 1..Len(harmRes.input) :
            Abs(harmRes.out[i].seasonal - harmRes.input[i].ndvi) <= 1

(***************************************************************************)
(* validateShadowDepth (geospatialEngine).  The sun altitude counts        *)
(* hundredths of a degree, the anomaly score thousandths.                  *)
(***************************************************************************)
\* 30 degrees
AltitudeGate == 3000

\* 0.5
ScoreGate == 500

\* a > b; false when an operand is NaN
Greater(a, b) == Less(b, a)

\* a wrong comparison: sunAltitude >= 30 && anomalyScore >= 0.5
validateShadowDepth_orEqual(sunAltitude, anomalyScore) ==
    /\ IsNumber(sunAltitude) /\ sunAltitude >= AltitudeGate
    /\ IsNumber(anomalyScore) /\ anomalyScore >= ScoreGate

\* return sunAltitude > 30 && anomalyScore > 0.5
validateShadowDepth(sunAltitude, anomalyScore) ==
    Greater(sunAltitude, AltitudeGate) /\ Greater(anomalyScore, ScoreGate)

SolarAltitudes == {-9000, -1000, 0, 1000, 2999, 3000, 3001, 3500, 4000, 9000, NaNValue}

SolarScores == {0, 300, 499, 500, 501, 600, 900, 1000, NaNValue}

InitSolar ==
    /\ DriftIdle
    /\ MadIdle
    /\ IsoIdle
    /\ HarmIdle
    /\ TreeIdle
    /\ AppMounted
    /\ ChartIdle
    /\ solarAltitude \in SolarAltitudes
    /\ solarScore \in SolarScores
    /\ solarRes = [called |-> FALSE]

CallValidateShadowDepth ==
    /\ ~solarRes.called
    /\ solarRes' = [called |-> TRUE, value |-> validateShadowDepth(solarAltitude, solarScore)]
    /\ UNCHANGED <<driftVars, madVars, isoVars, harmVars, solarAltitude, solarScore, treeVars, appVars, chartVars>>

NextSolar == CallValidateShadowDepth

SpecSolar == InitSolar /\ [][NextSolar]_vars

\* C18: validateShadowDepth(altitude, anomalyScore) is true if and only if
\* altitude > 30 and anomalyScore > 0.5, both strictly: altitude = 30 or
\* score = 0.5 gives false, (35, 0.6) gives true, (10, 0.9) and (40, 0.3)
\* give false.
C18_TrueIffBothGatesPassed ==
    solarRes.called =>
        /\ solarRes.value \in BOOLEAN
        /\ solarRes.value <=> /\ solarAltitude # NaNValue /\ solarAltitude > 3000
                              /\ solarScore # NaNValue /\ solarScore > 500
        /\ (solarAltitude = 3000 \/ solarScore = 500) => ~solarRes.value
        /\ (solarAltitude = 3500 /\ solarScore = 600) => solarRes.value
        /\ (solarAltitude = 1000 /\ solarScore = 900) => ~solarRes.value
        /\ (solarAltitude = 4000 /\ solarScore = 300) => ~solarRes.value

C18_Witness ==
    /\ solarRes.called
    /\ solarAltitude = 3000
    /\ solarScore = 600
    /\ solarRes.value = FALSE

(***************************************************************************)
(* SpecTree: buildTree(sample, 0) on one subsample, as one turn of the     *)
(* forest loop calls it.  A subsample has subSampleSize elements, and the  *)
(* height limit is the one of that size.                                   *)
(***************************************************************************)
TreeSamples == UNION {[1..s -> IsoValues] : s \in 0..MaxIsoLen}

InitTree ==
    /\ DriftIdle
    /\ MadIdle
    /\ IsoIdle
    /\ HarmIdle
    /\ SolarIdle
    /\ AppMounted
    /\ ChartIdle
    /\ treeSample \in TreeSamples
    /\ treeRes = [called |-> FALSE]

CallBuildTree ==
    /\ ~treeRes.called
    /\ \E tree \in buildTree(treeSample, 0, heightLimit(Len(treeSample))) :
          treeRes' = [called |-> TRUE, tree |-> tree]
    /\ UNCHANGED <<driftVars, madVars, isoVars, harmVars, solarVars, treeSample, appVars, chartVars>>

NextTree == CallBuildTree

SpecTree == InitTree /\ [][NextTree]_vars

LeftOf(data, node) == SelectSeq(data, LAMBDA x : BelowSplit(x, node.splitValue))

RightOf(data, node) == SelectSeq(data, LAMBDA x : ~BelowSplit(x, node.splitValue))

\* every internal node of tree, built on data, has its split value strictly
\* between the minimum and the maximum of its partition and two non-empty
\* child partitions
RECURSIVE SplitsStrictlyInside(_, _)
SplitsStrictlyInside(tree, data) ==
    tree.type = "node" =>
        /\ 2 * SeqMin(data) < tree.splitValue
        /\ tree.splitValue < 2 * SeqMax(data)
        /\ Len(LeftOf(data, tree)) > 0
        /\ Len(RightOf(data, tree)) > 0
        /\ SplitsStrictlyInside(tree.left, LeftOf(data, tree))
        /\ SplitsStrictlyInside(tree.right, RightOf(data, tree))

\* C19: at every internal node the split value is strictly greater than the
\* partition's minimum and strictly less than its maximum, whatever
\* Math.random() returns, so both child partitions are non-empty.
C19_SplitStrictlyBetweenMinAndMax ==
    treeRes.called => SplitsStrictlyInside(treeRes.tree, treeSample)

\* the node built on data at this depth is a leaf exactly when the leaf test
\* of buildTree holds, a leaf stores the size of its partition, and the
\* same holds below
RECURSIVE LeavesAsBuilt(_, _, _, _)
LeavesAsBuilt(tree, data, depth, hLimit) ==
    /\ tree.type = "leaf" <=>
          \/ depth >= hLimit
          \/ Len(data) <= 1
          \/ SeqMin(data) = SeqMax(data)
    /\ tree.type = "leaf" => tree.size = Len(data)
    /\ tree.type = "node" =>
          /\ LeavesAsBuilt(tree.left, LeftOf(data, tree), depth + 1, hLimit)
          /\ LeavesAsBuilt(tree.right, RightOf(data, tree), depth + 1, hLimit)

\* the depths of the leaves of tree, whose root is at this depth
RECURSIVE LeafDepths(_, _)
LeafDepths(tree, depth) ==
    IF tree.type = "leaf" THEN {depth}
    ELSE LeafDepths(tree.left, depth + 1) \cup LeafDepths(tree.right, depth + 1)

\* buildTree returns: the set of trees it can return is computed, and is not
\* empty
BuildTreeReturns == buildTree(treeSample, 0, heightLimit(Len(treeSample))) # {}

\* C20 as stated: tree construction terminates for every subsample and
\* every sequence of draws, every leaf lies at depth <= H = ceil(log2(S)),
\* and a node is a leaf storing its partition size as soon as depth >= H,
\* the partition holds <= 1 element, or its min equals its max.
C20_LeavesAtMostAtHeightLimit ==
    /\ ~treeRes.called => BuildTreeReturns
    /\ treeRes.called =>
          /\ LeavesAsBuilt(treeRes.tree, treeSample, 0, heightLimit(Len(treeSample)))
          /\ \A d \in LeafDepths(treeRes.tree, 0) : d <= heightLimit(Len(treeSample))

\* C20, amended: the same, with the depth bound stated for S >= 1; on the
\* empty subsample (S = 0, H = -Infinity) the tree is one leaf of size 0 at
\* depth 0.
C20_LeavesAtMostAtHeightLimitOrRoot ==
    /\ ~treeRes.called => BuildTreeReturns
    /\ treeRes.called =>
          /\ LeavesAsBuilt(treeRes.tree, treeSample, 0, heightLimit(Len(treeSample)))
          /\ Len(treeSample) >= 1 =>
                \A d \in LeafDepths(treeRes.tree, 0) : d <= heightLimit(Len(treeSample))
          /\ Len(treeSample) = 0 => treeRes.tree = Leaf(0)

C20_Witness ==
    /\ treeRes.called
    /\ Len(treeSample) = 4
    /\ treeRes.tree.type = "node"
    /\ treeRes.tree.right.type = "node"
    /\ LeafDepths(treeRes.tree, 0) = {1, 2}

(***************************************************************************)
(* The low-pass filter of performHarmonicAnalysis, bin by bin (SpecHarm).  *)
(***************************************************************************)
\* bin k is as the forward transform left it
BinKept(k) == harmRes.filtered[k + 1] = harmRes.spectrum[k + 1]

\* bin k is zero and was not zero before the loop
BinZeroed(k) == harmRes.filtered[k + 1] = ComplexZero /\ harmRes.spectrum[k + 1] # ComplexZero

\* every bin of the spectrum is non-zero, so that "kept" and "zeroed" differ
FullSpectrum == \A k \in 0..(harmRes.size - 1) : harmRes.spectrum[k + 1] # ComplexZero

\* C21 as stated: for FFT size P > 20 the bins left untouched are exactly
\* bin 0, bins 1..10 and bins P-10..P-1, every other bin is set to zero, and
\* bin k is kept iff its mirror bin P-k is kept.
C21_KeepsTenHarmonicsEachSide ==
    (harmRes.called /\ harmRes.size > 20 /\ FullSpectrum) =>
        /\ \A k \in 0..(harmRes.size - 1) :
              IF k <= 10 \/ k >= harmRes.size - 10 THEN BinKept(k) ELSE BinZeroed(k)
        /\ \A k \in 1..(harmRes.size - 1) : BinKept(k) <=> BinKept(harmRes.size - k)

\* C21, amended: for FFT size P > 20 the bins left untouched are exactly
\* bins 0..9 (the DC component and 9 positive harmonics) and bins P-10..P-1
\* (10 negative harmonics); every bin in 10..P-11 is set to zero, so bin 10
\* is zeroed although its mirror bin P-10 is kept.
C21_KeepsBinsBelowCutoffAndLastTen ==
    (harmRes.called /\ harmRes.size > 20) =>
        /\ \A k \in 0..(harmRes.size - 1) :
              IF k < 10 \/ k >= harmRes.size - 10
              THEN BinKept(k)
              ELSE harmRes.filtered[k + 1] = ComplexZero
        /\ FullSpectrum => BinZeroed(10) /\ BinKept(harmRes.size - 10)
                             /\ ~BinKept(10)

C21_Witness ==
    /\ harmRes.called
    /\ harmRes.size = 32
    /\ FullSpectrum
    /\ BinZeroed(10)
    /\ BinKept(22)
    /\ BinKept(9) /\ BinKept(23)
    /\ BinZeroed(21)

(***************************************************************************)
(* SpecApp: the App component (modelEngine.ts, from line 161).  A file is  *)
(* selected for a slot, its decode settles later, in any order; the       *)
(* analysis button starts a run whose work is deferred by setTimeout.      *)
(* The two preview canvases are written and never read; they are left      *)
(* out.  detectAnomalies is the Isolation one, the module that also        *)
(* exports calculateSunPosition and validateShadowDepth.                   *)
(***************************************************************************)
\* most file selections, and most analysis runs, of a behaviour of SpecApp
MaxUploads == 3
MaxRuns == 2

Slots == {"past", "present"}

\* the files a user selects: A and B decode to 1 x 2 rasters (B is A
\* degraded by 0.4 everywhere), C to a 2 x 1 raster, X is not a
\* GeoTIFF (loadGeoTiff rejects).  The handler is the same for both slots;
\* the wrong shape and the rejected file are offered to the past slot, the
\* degraded raster to the present slot.
Files(slot) == IF slot = "past" THEN {"A", "C", "X"} ELSE {"A", "B"}

Decodes(f) == f # "X"

\* the raster loadGeoTiff resolves to, values in hundredths
FileRaster(f) ==
    IF f = "A" THEN [width |-> 1, height |-> 2, data |-> <<50, 50>>]
    ELSE IF f = "B" THEN [width |-> 1, height |-> 2, data |-> <<10, 10>>]
    ELSE [width |-> 2, height |-> 1, data |-> <<50, 50>>]

\* calculateSunPosition(24.5, 73.0, 2025-05-15T12:00Z), in hundredths of a
\* degree: day of year 135, or 136 where local midnight is 12 h or more
\* ahead of UTC
SimAltitudes == {8429, 8453}

\* stats.maxScore || 0.8: 0 and NaN are falsy
OrDefaultScore(maxScore) == IF maxScore = 0 \/ maxScore = NaNValue THEN 800 ELSE maxScore

FileOf(slot) == IF slot = "past" THEN pastFile ELSE presentFile

RasterOf(slot) == IF slot = "past" THEN pastRasterRef ELSE presentRasterRef

\* handleFileUpload up to its await: the file is shown for the slot and its
\* decode starts
SelectFile(slot, f) ==
    /\ uploadCount < MaxUploads
    /\ uploadCount' = uploadCount + 1
    /\ pastFile' = IF slot = "past" THEN f ELSE pastFile
    /\ presentFile' = IF slot = "present" THEN f ELSE presentFile
    /\ pendingDecodes' = pendingDecodes \cup {[id |-> uploadCount + 1, slot |-> slot, file |-> f]}
    /\ UNCHANGED <<pastRasterRef, presentRasterRef, isProcessing, resultReady,
                   selectedPixel, solarData, canvasResult, pendingTimer, lastRun, runCount>>

handleFileUpload == \E slot \in Slots : \E f \in Files(slot) : SelectFile(slot, f)

\* handleFileUpload after its await: the ref of the slot takes the raster,
\* or keeps what it held when loadGeoTiff rejected
RasterAfterDecode(d, held) ==
    IF Decodes(d.file) THEN Some(FileRaster(d.file)) ELSE held

DecodeSettles ==
    \E d \in pendingDecodes :
        /\ pendingDecodes' = pendingDecodes \ {d}
        /\ pastRasterRef' = IF d.slot = "past" THEN RasterAfterDecode(d, pastRasterRef)
                            ELSE pastRasterRef
        /\ presentRasterRef' = IF d.slot = "present" THEN RasterAfterDecode(d, presentRasterRef)
                               ELSE presentRasterRef
        /\ UNCHANGED <<pastFile, presentFile, isProcessing, resultReady, selectedPixel,
                       solarData, canvasResult, pendingTimer, lastRun, uploadCount, runCount>>

\* the button is disabled while !pastFile || !presentFile || isProcessing
ButtonEnabled == pastFile # "none" /\ presentFile # "none" /\ ~isProcessing

\* runAnalysis: an alert and nothing else while a raster is missing;
\* otherwise the flags are set and the work is deferred
runAnalysis ==
    /\ ButtonEnabled
    /\ runCount < MaxRuns
    /\ IF pastRasterRef = Null \/ presentRasterRef = Null
       THEN UNCHANGED <<isProcessing, resultReady, solarData, pendingTimer, lastRun, runCount>>
       ELSE /\ isProcessing' = TRUE
            /\ resultReady' = FALSE
            /\ solarData' = Null
            /\ pendingTimer' = TRUE
            /\ lastRun' = "pending"
            /\ runCount' = runCount + 1
    /\ UNCHANGED <<pastFile, presentFile, pastRasterRef, presentRasterRef, selectedPixel,
                   canvasResult, pendingDecodes, uploadCount>>

\* a wrong cleanup: setIsProcessing(false) as the last statement of the try
\* block instead of in finally
ProcessingAfterRun_noFinally(threw) == threw

\* finally { setIsProcessing(false) }
ProcessingAfterRun(threw) == FALSE

\* the results detectAnomalies(drift) can return, over the forests it draws
DetectResults(drift) ==
    {IsoResult(drift, scores) :
        scores \in {IsoScores(drift, pathSum) : pathSum \in ForestPathSums(drift)}}

\* the setTimeout callback of runAnalysis, on the rasters held when it runs
DeferredAnalysis ==
    /\ pendingTimer
    /\ pendingTimer' = FALSE
    /\ \E d \in {calculateDrift(pastRasterRef[1], presentRasterRef[1])} :
           IF d.threw
           THEN /\ lastRun' = "threw"
                /\ isProcessing' = ProcessingAfterRun(TRUE)
                /\ UNCHANGED <<resultReady, solarData, canvasResult>>
           ELSE \E res \in DetectResults(d.drift), altitude \in SimAltitudes :
                      /\ canvasResult' = [width |-> presentRasterRef[1].width,
                                          height |-> presentRasterRef[1].height]
                      /\ solarData' = Some([altitude |-> altitude,
                                            isConfirmed |-> validateShadowDepth(altitude,
                                                OrDefaultScore(res.stats.maxScore))])
                      /\ resultReady' = TRUE
                      /\ lastRun' = "ok"
                      /\ isProcessing' = ProcessingAfterRun(FALSE)
    /\ UNCHANGED <<pastFile, presentFile, pastRasterRef, presentRasterRef, selectedPixel,
                   pendingDecodes, uploadCount, runCount>>

\* handleCanvasClick at canvas pixel (x, y)
handleCanvasClick ==
    /\ resultReady /\ pastRasterRef # Null /\ presentRasterRef # Null
    /\ \E x \in 0..(canvasResult.width - 1), y \in 0..(canvasResult.height - 1) :
          selectedPixel' = IF x < pastRasterRef[1].width /\ y < pastRasterRef[1].height
                           THEN Some([x |-> x, y |-> y])
                           ELSE selectedPixel
    /\ UNCHANGED <<pastFile, presentFile, pastRasterRef, presentRasterRef, isProcessing,
                   resultReady, solarData, canvasResult, pendingDecodes, pendingTimer,
                   lastRun, uploadCount, runCount>>

\* idx = selectedPixel.y * pastRasterRef.current.width + selectedPixel.x
ChartIndex == selectedPixel[1].y * pastRasterRef[1].width + selectedPixel[1].x

\* getChartData: the past and the present value read at idx
getChartData ==
    IF selectedPixel = Null \/ pastRasterRef = Null \/ presentRasterRef = Null THEN <<>>
    ELSE <<DataAt(pastRasterRef[1], ChartIndex + 1), DataAt(presentRasterRef[1], ChartIndex + 1)>>

OthersIdle == DriftIdle /\ MadIdle /\ IsoIdle /\ HarmIdle /\ SolarIdle /\ TreeIdle

InitApp == OthersIdle /\ AppMounted /\ ChartIdle

NotApp == <<driftVars, madVars, isoVars, harmVars, solarVars, treeVars, chartVars>>

NextApp ==
    \/ handleFileUpload /\ UNCHANGED NotApp
    \/ DecodeSettles /\ UNCHANGED NotApp
    \/ runAnalysis /\ UNCHANGED NotApp
    \/ DeferredAnalysis /\ UNCHANGED NotApp
    \/ handleCanvasClick /\ UNCHANGED NotApp

SpecApp == InitApp /\ [][NextApp]_vars

\* the setTimeout callback is run once it is due
SpecAppFair == SpecApp /\ WF_vars(DeferredAnalysis /\ UNCHANGED NotApp)

SameShapeHeld ==
    /\ pastRasterRef # Null /\ presentRasterRef # Null
    /\ pastRasterRef[1].width = presentRasterRef[1].width
    /\ pastRasterRef[1].height = presentRasterRef[1].height

\* C22: in every reachable state in which resultReady is true, the held past
\* and present rasters have equal width and height, whatever the
\* interleaving of uploads and analysis runs; hence the index of the pixel
\* inspector addresses the inspected pixel in both rasters.
C22_ReadyImpliesSameShape ==
    resultReady =>
        /\ SameShapeHeld
        /\ selectedPixel # Null =>
              /\ selectedPixel[1].x < presentRasterRef[1].width
              /\ selectedPixel[1].y < presentRasterRef[1].height
              /\ ChartIndex = selectedPixel[1].y * presentRasterRef[1].width + selectedPixel[1].x

Settled(slot) == \A d \in pendingDecodes : d.slot # slot

\* C23: once all pending decodes of a slot have settled, the raster held for
\* the slot is the one decoded from the file most recently selected for it,
\* whatever order the decodes complete in (stated for a latest file that
\* decodes).
C23_LatestSelectedFileHeld ==
    \A slot \in Slots :
        (Settled(slot) /\ FileOf(slot) # "none" /\ Decodes(FileOf(slot))) =>
            RasterOf(slot) = Some(FileRaster(FileOf(slot)))

\* C24: every analysis run that sets isProcessing to true is eventually
\* followed by isProcessing false, whether the deferred analysis succeeds or
\* throws; resultReady becomes true only in a run whose calculateDrift and
\* detectAnomalies completed without throwing, and a run that threw leaves
\* resultReady false and solarData null.
C24_ProcessingEndsReadyOnlyOnSuccess ==
    /\ [](isProcessing => <>(~isProcessing))
    /\ [][(resultReady' /\ ~resultReady) => (lastRun = "pending" /\ lastRun' = "ok")]_vars
    /\ [](lastRun = "threw" => (~resultReady /\ solarData = Null))
    /\ [](lastRun = "pending" <=> isProcessing)

C24_Witness ==
    /\ lastRun = "threw"
    /\ ~isProcessing
    /\ ~resultReady
    /\ solarData = Null
    /\ canvasResult.width > 0

(***************************************************************************)
(* SpecChart: the ChartPanel component (modelEngine.ts, lines 524-579).     *)
(* A render commits the zone prop; the effect keyed on zone.id runs after   *)
(* the commit: the cleanup of the previous effect clears its isMounted,     *)
(* then runPipeline starts for the committed zone.  trainingLoss is        *)
(* written and only displayed by the loader; it is left out.  The data a    *)
(* pipeline sets is named by the zone whose history it was computed from.   *)
(***************************************************************************)
\* most zone changes of a behaviour of SpecChart
MaxZoneChanges == 3

Zones == {"Z1", "Z2", "Z3"}

\* the first render of the panel, before its effect has run
ChartMounted ==
    /\ zone \in Zones
    /\ effectZone = "none"
    /\ isTraining = FALSE
    /\ processedData = Null
    /\ pipelines = {}
    /\ zoneChanges = 0

\* the parent renders the panel with another zone
ZoneChanges ==
    /\ zoneChanges < MaxZoneChanges
    /\ zoneChanges' = zoneChanges + 1
    /\ \E z \in Zones \ {zone} : zone' = z
    /\ UNCHANGED <<effectZone, isTraining, processedData, pipelines>>

\* return () => { isMounted = false; }
Cleanup(running) == {[p EXCEPT !.isMounted = FALSE] : p \in running}

\* useEffect(..., [zone.id]): after a commit whose zone.id differs from the
\* one of the previous run (or after the first commit), the previous cleanup
\* runs and runPipeline runs up to its await
EffectRuns ==
    /\ effectZone # zone
    /\ effectZone' = zone
    /\ isTraining' = TRUE
    /\ pipelines' = Cleanup(pipelines) \cup
                       {[id |-> zoneChanges, zone |-> zone, isMounted |-> TRUE]}
    /\ UNCHANGED <<zone, processedData, zoneChanges>>

\* if (isMounted) setProcessedData(...), when the model resolved
DataAfterPipeline(p, resolved, held) ==
    IF resolved /\ p.isMounted THEN Some(p.zone) ELSE held

\* finally { if (isMounted) setIsTraining(false); }
TrainingAfterPipeline(p, held) == IF p.isMounted THEN FALSE ELSE held

\* runPipeline after its await: trainAndPredictAnomalies resolved or rejected
PipelineSettles ==
    \E p \in pipelines, resolved \in BOOLEAN :
        /\ pipelines' = pipelines \ {p}
        /\ processedData' = DataAfterPipeline(p, resolved, processedData)
        /\ isTraining' = TrainingAfterPipeline(p, isTraining)
        /\ UNCHANGED <<zone, effectZone, zoneChanges>>

InitChart == OthersIdle /\ AppMounted /\ ChartMounted

NotChart == <<driftVars, madVars, isoVars, harmVars, solarVars, treeVars, appVars>>

NextChart ==
    \/ ZoneChanges /\ UNCHANGED NotChart
    \/ EffectRuns /\ UNCHANGED NotChart
    \/ PipelineSettles /\ UNCHANGED NotChart

SpecChart == InitChart /\ [][NextChart]_vars

\* the render guard: if (isTraining || !latestPoint || !solarInfo) shows the
\* loader, anything else the charts
ShowsCharts == ~isTraining /\ processedData # Null

\* C25: whenever the panel shows charts, processedData was produced by the
\* pipeline run for the currently selected zone, across zone changes, late
\* pipelines of earlier zones and failing pipelines.
C25_ChartsAreOfSelectedZone == ShowsCharts => processedData = Some(zone)

\* all elements of the drift array are one value
IsConstantDrift(drift) == \A i, j \in DOMAIN drift : drift[i] = drift[j]

\* C26: Isolation detectAnomalies on N >= 2 identical values: every tree is
\* a single leaf of size S, every element's score is 0.5, the mask is empty
\* and count is 0, for every constant, also one below -0.05.
C26_ConstantDriftNeverFlagged ==
    (isoRes.called /\ Len(isoRes.input) >= 2 /\ IsConstantDrift(isoRes.input)) =>
        /\ ForestTrees(isoRes.input) = {Leaf(subSampleSize(Len(isoRes.input)))}
        /\ \A i \in DOMAIN isoRes.scores : isoRes.scores[i] = 500
        /\ \A i \in DOMAIN isoRes.anomalies : isoRes.anomalies[i] = 0
        /\ Len(isoRes.anomalies) = Len(isoRes.input)
        /\ isoRes.count = 0

C26_Witness ==
    /\ isoRes.called
    /\ Len(isoRes.input) >= 3
    /\ \A i \in DOMAIN isoRes.input : isoRes.input[i] = -40
    /\ isoRes.input[1] < DriftGate
    /\ isoRes.scores[1] = 500
    /\ isoRes.count = 0

\* C27: Median/MAD detectAnomalies on a drift array that is not subsampled
\* (1 <= N <= 1,000,000): limit is strictly less than the median, no element
\* greater than or equal to the median is flagged, and count <= floor(N/2).
C27_AtMostHalfFlagged ==
    (madRes.called /\ 1 <= Len(madRes.input) /\ Len(madRes.input) <= SampleAbove) =>
        /\ Less(madRes.stats.limit, madRes.stats.median)
        /\ \A i \in DOMAIN madRes.input :
              madRes.input[i] >= madRes.stats.median => madRes.anomalies[i] = 0
        /\ madRes.count <= Len(madRes.input) \div 2

C27_Witness ==
    /\ madRes.called
    /\ Len(madRes.input) >= 4 /\ Len(madRes.input) <= SampleAbove
    /\ madRes.count = Len(madRes.input) \div 2
    /\ Less(madRes.stats.limit, madRes.stats.median)

\* C28: on a series of length N <= 16 the FFT size is at most 16, the range
\* [10, P - 10) is empty, no frequency bin is zeroed, and the seasonal
\* estimate returned at every index equals the observed value at that index.
C28_ShortSeriesFilterIsIdentity ==
    (harmRes.called /\ Len(harmRes.input) <= 16) =>
        /\ harmRes.size <= 16
        /\ harmRes.filtered = harmRes.spectrum
        /\ \A i \in 1..Len(harmRes.input) :
              harmRes.out[i].seasonal = harmRes.input[i].ndvi
====
